---- MODULE Spec2Model ----
(***************************************************************************)
(* The request-telemetry core of terracotta: the per-second aggregator     *)
(* (stats/worker.rs), the shared statistics state (stats/state.rs) and the *)
(* overview and history handlers that read it (stats/handlers.rs).         *)
(*                                                                         *)
(* A NaiveDateTime is a record [secs, nanos]; with_nanosecond(0) clears    *)
(* nanos.  An f64 is a non-negative rational <<num, den>> in lowest terms  *)
(* that a binary float of SignificandBits bits can hold, and every f64     *)
(* operation rounds its exact result to the nearest such value, ties to    *)
(* even, as IEEE 754 does with 53 bits.  u64 counters never approach       *)
(* u64::MAX here, so saturating_add is addition.                           *)
(***************************************************************************)
EXTENDS Integers, Sequences, FiniteSets, Bags, TLC

\* ------------------------------------------------------------------ bounds
\* Clock readings fall in seconds 1..MaxSecond.
MaxSecond == 3
\* Ring-buffer capacities are drawn from 0..MaxCap.
MaxCap == 2
\* Samples the worker receives in one run.
MaxSamples == 3
\* Samples the worker receives in a run that serves requests as well or
\* keeps the record of the samples.
MaxRecorded == 2
\* Period lengths are drawn from 0..MaxPeriod + 1.
MaxPeriod == 2
\* Folded values are drawn from 0..MaxValue, at most MaxFold of them.
MaxValue == 15
MaxFold == 3
\* Requests that pass through stats_layer in one run.
MaxRequests == 2
\* The microseconds between the two readings the clock gives within a second
\* to the capture hook.
MaxMicros == 3
\* The width of u64 in the model.
U64Bits == 5
\* The largest ws_ping_interval and ws_ping_timeout, in seconds.
MaxPing == 2
\* The seconds a live feed is followed for.
MaxFeedTime == 6
\* The incoming messages a live feed is followed for.
MaxIncoming == 3
\* The overview and history requests handled at the same time.
MaxHandlers == 2
\* Bits of significand an f64 keeps in the model (53 in the program).
SignificandBits == 5

\* ------------------------------------------------------------------- time
\* Sub-second parts a clock reading can have.
Nanos == {0, 500000000}

\* Utc::now().naive_utc(): the readings the wall clock can give.
Clock == [secs : 1..MaxSecond, nanos : Nanos]

\* The readings of a clock that runs a second longer.
LongClock == [secs : 1..(MaxSecond + 1), nanos : Nanos]

\* The first two seconds of the clock.
EarlyClock == {t \in Clock : t.secs <= 2}

\* NaiveDateTime::default(), the Unix epoch.
Epoch == [secs |-> 0, nanos |-> 0]

with_nanosecond_0(t) == [t EXCEPT !.nanos = 0]

\* a < b on NaiveDateTime.
Earlier(a, b) == a.secs < b.secs \/ (a.secs = b.secs /\ a.nanos < b.nanos)

\* t + Duration::seconds(i).
AddSeconds(t, i) == [t EXCEPT !.secs = @ + i]

\* (a - b).num_seconds(): the whole seconds of the difference, towards zero.
\* The difference of the whole seconds of the two readings.
num_seconds_of_floors(a, b) == a.secs - b.secs

num_seconds(a, b) ==
    LET floor == IF a.nanos >= b.nanos
                 THEN a.secs - b.secs ELSE a.secs - b.secs - 1
    IN  IF floor < 0 /\ a.nanos # b.nanos THEN floor + 1 ELSE floor

\* -------------------------------------------------------------- rationals
RECURSIVE Gcd(_, _)
Gcd(a, b) == IF b = 0 THEN a ELSE Gcd(b, a % b)

Rat(n, d) == LET g == Gcd(n, d) IN <<n \div g, d \div g>>
RatMul(p, q) == Rat(p[1] * q[1], p[2] * q[2])
RatAdd(p, q) == Rat(p[1] * q[2] + q[1] * p[2], p[2] * q[2])
RatLeq(p, q) == p[1] * q[2] <= q[1] * p[2]
RatOfInt(v) == <<v, 1>>
\* p - q for p >= q, and p / q for q > 0.
RatSub(p, q) == Rat(p[1] * q[2] - q[1] * p[2], p[2] * q[2])
RatDiv(p, q) == Rat(p[1] * q[2], p[2] * q[1])

\* -------------------------------------------------------------------- f64
\* n / d scaled by a power of two into [2^(bits-1), 2^bits), rounded to an
\* integer (to nearest, ties to even) and scaled back by mul / div.
RECURSIVE RoundScaled(_, _, _, _)
RoundScaled(n, d, mul, div) ==
    IF n >= d * 2^SignificandBits
    THEN RoundScaled(n, 2 * d, 2 * mul, div)
    ELSE IF n < d * 2^(SignificandBits - 1)
    THEN RoundScaled(2 * n, d, mul, 2 * div)
    ELSE LET m  == n \div d
             r  == n % d
             up == 2 * r > d \/ (2 * r = d /\ m % 2 = 1)
         IN  Rat((IF up THEN m + 1 ELSE m) * mul, div)

\* The denominators of the values an f64 holds exactly without scaling.
PowersOfTwo == {2^k : k \in 0..(2 * SignificandBits)}

\* The f64 nearest to the rational q: q itself where an f64 holds it.
f64(q) ==
    IF q[1] < 2^SignificandBits /\ q[2] \in PowersOfTwo
    THEN q
    ELSE RoundScaled(q[1], q[2], 1, 1)

\* value as f64.
as_f64(value) == f64(RatOfInt(value))

\* a.mul_add(b, c): a * b + c, rounded once.
mul_add(a, b, c) == f64(RatAdd(RatMul(a, b), c))

\* --------------------------------------------------------- StatsForPeriod
\* The started_at of a default(): Utc::now() at the call.  The worker
\* overwrites it before it pushes an entry and the responses drop it, so the
\* model keeps it as a token that is neither the epoch nor a reading of the
\* clock.
NowStamp == [secs |-> 0, nanos |-> 1]

\* StatsForPeriod::default().
Default ==
    [started_at |-> NowStamp, average |-> RatOfInt(0),
     maximum |-> 0, minimum |-> 0, count |-> 0]

initialize(value) ==
    [started_at |-> NowStamp, average |-> as_f64(value),
     maximum |-> value, minimum |-> value, count |-> 1]

\* A weight that ignores the counts.
update_weight_half(stats_count, count) == Rat(1, 2)

\* stats.count as f64 / self.count as f64: the weight of the incoming stats
\* in the combined average.
update_weight(stats_count, count) ==
    f64(RatDiv(as_f64(stats_count), as_f64(count)))

\* A minimum that an empty stats can lower.
update_minimum_unguarded(self, stats) ==
    IF stats.minimum < self.minimum \/ self.count = 0
    THEN stats.minimum ELSE self.minimum

update_minimum(self, stats) ==
    IF (stats.minimum < self.minimum /\ stats.count > 0) \/ self.count = 0
    THEN stats.minimum ELSE self.minimum

update_maximum(self, stats) ==
    IF stats.maximum > self.maximum THEN stats.maximum ELSE self.maximum

\* self.update(&stats): the value of self afterwards.
update(self, stats) ==
    LET count == self.count + stats.count IN
    [started_at |-> self.started_at,
     minimum    |-> update_minimum(self, stats),
     maximum    |-> update_maximum(self, stats),
     count      |-> count,
     average    |->
        IF count > 0 /\ stats.count > 0
        THEN LET weight == update_weight(stats.count, count) IN
             mul_add(self.average, f64(RatSub(RatOfInt(1), weight)),
                     f64(RatMul(stats.average, weight)))
        ELSE self.average]

\* ------------------------------------------------------------ VecDeque
push_front(buffer, entry) == <<entry>> \o buffer
\* A pop that drops the front entry.
pop_front(buffer) == IF buffer = <<>> THEN buffer ELSE Tail(buffer)

pop_back(buffer) ==
    IF buffer = <<>> THEN buffer ELSE SubSeq(buffer, 1, Len(buffer) - 1)

\* ------------------------------------------------------------ the samples
\* What the capture hook measures of a request, apart from its start: two
\* endpoints, a status code AppStatsTotals presets and one it does not, and
\* values that differ between the three measurements.
Requests ==
    {[endpoint |-> "GET /", status_code |-> 200,
      time_taken |-> 15, connections |-> 1, memory |-> 2],
     [endpoint |-> "GET /api/ping", status_code |-> 200,
      time_taken |-> 1, connections |-> 2, memory |-> 0],
     [endpoint |-> "GET /", status_code |-> 418,
      time_taken |-> 2, connections |-> 1, memory |-> 1]}

\* When a request can have started: a time within a second of the clock.
Starts == {t \in Clock : t.nanos # 0}

\* ResponseMetrics: the samples the worker can receive.
Samples ==
    {[endpoint |-> r.endpoint, started_at |-> t, time_taken |-> r.time_taken,
      status_code |-> r.status_code, connections |-> r.connections,
      memory |-> r.memory] : r \in Requests, t \in Starts}

\* ------------------------------------------------------------------ state
\* Option<T>: None is the empty set, Some(x) the set of x alone.
None == {}
Some(x) == {x}
unwrap(option) == CHOOSE x \in option : TRUE

VARIABLES
    config,           \* stats Config: the three buffer sizes and the periods
    totals,           \* AppStats::totals
    buffers,          \* AppStats::buffers
    last_second,      \* AppStats::last_second
    broadcast,        \* the broadcast channel: retained messages, oldest first
    current_second,   \* worker: the second being accumulated
    timing_stats,     \* worker: the accumulators of the current second
    conn_stats,
    memory_stats,
    pc,               \* worker: position in stats_processor
    metrics,          \* stats_processor: the sample of this call, or None
    new_second,       \* stats_processor: new_second
    message,          \* stats_processor: message
    stats_pc,         \* get_stats: position
    stats_input,      \* get_stats: timing_input, conn_input, memory_input
    stats_response,   \* the StatsResponse the step just taken returned
    history_response, \* the StatsHistoryResponse the step just taken returned
    received,         \* the number of samples the worker has received
    folded,           \* history: the samples received, each with the second
                      \* the worker was accumulating when it arrived
    accumulated,      \* history: the first entries pushed by the advance in
                      \* progress
    fold_stats,       \* a StatsForPeriod that values are folded into
    fold_values,      \* the values folded into fold_stats, in order
    pushed,           \* history: every entry pushed to each buffer, newest
                      \* first
    started_at,       \* AppStats::started_at
    requests,         \* AppStats::requests
    connections,      \* AppStats::connections
    queue,            \* AppStateStats::queue: None, or Some of the samples
                      \* sent and not yet received, oldest first
    receiver,         \* whether the receiving end of the queue exists
    senders,          \* the number of sending ends of the queue that exist
    locks,            \* who holds the totals mutex, the buffers lock and
                      \* the last_second lock, and where each user of them is
    broadcaster,      \* AppStateStats::broadcaster: None, or Some of the
                      \* sending end of the broadcast channel
    hooks,            \* stats_layer: the position and the locals of each
                      \* request
    feed,             \* ws_stats_feed: the locals of the loop, the time on
                      \* the monotonic clock and the state of the socket
    stats_now         \* get_stats: now, the clock reading of the last overview

worker_vars == <<current_second, timing_stats, conn_stats, memory_stats, pc,
                 metrics, new_second, message>>
fold_vars == <<fold_stats, fold_values>>
env_vars == <<started_at, requests, connections, queue, receiver, senders,
              locks, broadcaster, hooks, feed>>
vars == <<config, totals, buffers, last_second, broadcast, worker_vars,
          stats_pc, stats_input, stats_response, history_response, received,
          folded, accumulated, fold_vars, pushed, env_vars, stats_now>>

\* ----------------------------------------------------------------- Init
\* AppStatsTotals::default(): the four preset status codes.
DefaultCodes == [c \in {200, 401, 404, 500} |-> 0]

\* AllStatsForPeriod::default().
DefaultMessage == [times |-> Default, connections |-> Default, memory |-> Default]

\* broadcast::channel(10).
BroadcastCapacity == 10

\* The requests that arrive in a run.
Requesters == 1..MaxRequests

\* The users of the three locks of AppStats: the worker and the handlers of
\* MaxHandlers concurrent requests.
Worker == 0
Handlers == 1..MaxHandlers
LockUsers == {Worker} \cup Handlers

\* No lock is held and no user is inside a call.
NoLocks ==
    [totals            |-> {},
     buffers_write     |-> {},
     buffers_read      |-> {},
     last_second_write |-> {},
     last_second_read  |-> {},
     at                |-> [p \in LockUsers |-> "idle"]]

\* stats_layer before the request has arrived. query_failed records that the
\* allocator query of the hook returned Err.
NotArrived ==
    [pc |-> "arriving", started_at |-> None, endpoint |-> None,
     response |-> None, now |-> None, sample |-> None, returned |-> None,
     query_failed |-> FALSE]

\* The state as constructed at clock reading `start`, telemetry enabled or
\* not: what start_stats_processor sets is left out.
Constructed(start, on, sizes, periods) ==
    /\ config = [enabled                |-> on,
                 timing_buffer_size     |-> sizes[1],
                 connection_buffer_size |-> sizes[2],
                 memory_buffer_size     |-> sizes[3],
                 periods                |-> periods]
    /\ totals = [codes       |-> DefaultCodes,
                 times       |-> Default,
                 endpoints   |-> <<>>,
                 connections |-> Default,
                 memory      |-> Default]
    /\ buffers = [responses |-> <<>>, connections |-> <<>>, memory |-> <<>>]
    /\ last_second = Epoch
    /\ broadcast = <<>>
    /\ timing_stats = Default
    /\ conn_stats = Default
    /\ memory_stats = Default
    /\ metrics = None
    /\ message = DefaultMessage
    /\ stats_pc = "idle"
    /\ stats_input = None
    /\ stats_response = None
    /\ history_response = None
    /\ received = 0
    /\ folded = EmptyBag
    /\ accumulated = None
    /\ fold_stats = Default
    /\ fold_values = <<>>
    /\ pushed = [responses |-> <<>>, connections |-> <<>>, memory |-> <<>>]
    /\ started_at = start
    /\ requests = 0
    /\ connections = 0
    /\ hooks = [r \in Requesters |-> NotArrived]
    /\ locks = NoLocks
    /\ stats_now = None

\* No live feed.
NoFeed == [open |-> FALSE]

\* What start_stats_processor has set when it has run at clock reading
\* `start`.
Started(start) ==
    /\ current_second = with_nanosecond_0(start)
    /\ new_second = with_nanosecond_0(start)
    /\ pc = "select"
    /\ queue = Some(<<>>)
    /\ receiver = TRUE
    /\ senders = 1
    /\ broadcaster = Some("tx")

\* State after start_stats_processor has run at clock reading `start`, the
\* state having been constructed at the same reading with telemetry enabled.
InitAt(start, sizes, periods) ==
    /\ Constructed(start, TRUE, sizes, periods)
    /\ Started(start)
    /\ feed = NoFeed

\* The buffer sizes a configuration can give: each buffer gets every size of
\* 0..MaxCap, and the three sizes of one configuration differ.
BufferSizes ==
    {<<a, (a + 1) % (MaxCap + 1), (a + 2) % (MaxCap + 1)>> : a \in 0..MaxCap}

\* The periods a configuration can give: two named windows, of every length
\* in 0..MaxPeriod + 1.
PeriodConfigs ==
    {[second |-> n, minute |-> n + 1] : n \in 0..MaxPeriod}

\* The worker starts within the first second of the clock.
StartReadings == {r \in Starts : r.secs = 1}

\* Every buffer size, under one configuration of the periods.
Init ==
    \E start \in StartReadings, sizes \in BufferSizes :
        InitAt(start, sizes, [second |-> 1, minute |-> 2])

\* One configuration: the buffer sizes <<MaxCap, 0, 1>>, the periods of Init.
FixedInit ==
    \E start \in StartReadings :
        InitAt(start, <<MaxCap, 0, 1>>, [second |-> 1, minute |-> 2])

\* Every configuration of the periods, under the buffer sizes <<MaxCap, 0, 1>>.
OverviewInit ==
    \E start \in StartReadings, periods \in PeriodConfigs :
        InitAt(start, <<MaxCap, 0, 1>>, periods)

\* State before start_stats_processor is called: telemetry enabled or not,
\* no sender and no broadcaster installed, no worker.
StartupInit ==
    \E start \in StartReadings, on \in BOOLEAN :
        /\ Constructed(start, on, <<MaxCap, 0, 1>>, [second |-> 1, minute |-> 2])
        /\ current_second = Epoch
        /\ new_second = Epoch
        /\ pc = "unstarted"
        /\ queue = None
        /\ receiver = FALSE
        /\ senders = 0
        /\ broadcaster = None
        /\ feed = NoFeed

\* ------------------------------------------------------- stats_processor
\* An entry that is left as it was.
upsert_skipped(map, key, modified, inserted) == map

\* HashMap entry(key).and_modify(..).or_insert(..): `modified` is the value
\* and_modify leaves, `inserted` the value or_insert stores.
Upsert(map, key, modified, inserted) ==
    [k \in DOMAIN map \cup {key} |->
        IF k = key
        THEN (IF key \in DOMAIN map THEN modified ELSE inserted)
        ELSE map[k]]

\* The totals after one sample (the section under the totals lock).
update_totals(t, sample) ==
    LET new_timing_stats == initialize(sample.time_taken)
        new_conn_stats   == initialize(sample.connections)
        new_memory_stats == initialize(sample.memory)
    IN  [codes |-> Upsert(t.codes, sample.status_code,
                          IF sample.status_code \in DOMAIN t.codes
                          THEN t.codes[sample.status_code] + 1 ELSE 0, 1),
         times |-> update(t.times, new_timing_stats),
         endpoints |-> Upsert(t.endpoints, sample.endpoint,
                          IF sample.endpoint \in DOMAIN t.endpoints
                          THEN update(t.endpoints[sample.endpoint], new_timing_stats)
                          ELSE new_timing_stats,
                          new_timing_stats),
         connections |-> update(t.connections, new_conn_stats),
         memory |-> update(t.memory, new_memory_stats)]

\* Every entry of an advance stamped with the same second.
entry_started_at_same(second, i) == second

\* The started_at the i-th entry of an advance gets.
entry_started_at(second, i) == AddSeconds(second, i)

\* Whether update_buffer drops the back entry before a push.
buffer_full(buffer, buffer_size) == Len(buffer) = buffer_size

\* An accumulator that is not reset.
stats_after_push_kept(stats) == stats

\* What the accumulator holds after an entry is pushed.
stats_after_push(stats) == Default

\* update_buffer from iteration i on: the buffer, the stats and the message
\* field (what update_message last stored) when the loop ends.
RECURSIVE update_buffer_from(_, _, _, _, _, _, _)
update_buffer_from(i, buffer, buffer_size, stats, second, elapsed, field) ==
    IF i >= elapsed
    THEN [buffer |-> buffer, stats |-> stats, field |-> field]
    ELSE LET kept    == IF buffer_full(buffer, buffer_size)
                        THEN pop_back(buffer) ELSE buffer
             stamped == [stats EXCEPT !.started_at = entry_started_at(second, i)]
         IN  update_buffer_from(i + 1, push_front(kept, stamped), buffer_size,
                                stats_after_push(stamped), second, elapsed, stamped)

update_buffer(buffer, buffer_size, stats, second, elapsed, field) ==
    update_buffer_from(0, buffer, buffer_size, stats, second, elapsed, field)

\* An advance on any change of the second, backwards too.
advances_on_change(new, current) == new # current

\* new_second > *current_second
advances(new, current) == Earlier(current, new)

\* A send that drops the message of an idle second.
send_unless_idle(channel, msg) ==
    IF msg.times.count = 0 THEN channel ELSE Append(channel, msg)

\* broadcaster.send(message): the channel keeps the newest BroadcastCapacity
\* messages.
send(channel, msg) ==
    IF Len(channel) = BroadcastCapacity
    THEN Append(Tail(channel), msg) ELSE Append(channel, msg)

\* A step of the worker returns no response.
NoResponse ==
    stats_response' = None /\ history_response' = None /\ stats_now' = None

\* select!: timer.tick() => stats_processor(None), up to the test of
\* new_second.
TickAt(readings) ==
    /\ pc = "select"
    /\ \E reading \in readings :
        /\ new_second' = with_nanosecond_0(reading)
        /\ pc' = IF advances(with_nanosecond_0(reading), current_second)
                 THEN "advance" ELSE "select"
    /\ metrics' = None
    /\ NoResponse
    /\ UNCHANGED <<config, totals, buffers, last_second, broadcast,
                   current_second, timing_stats, conn_stats, memory_stats,
                   message, stats_pc, stats_input, received, folded,
                   accumulated, fold_vars, pushed, env_vars>>

Tick == TickAt(Clock)

\* stats_processor(Some(sample)), up to the test of new_second.
\* With `logged`, the step also records the sample in `folded`.
stats_processor_some(sample, logged) ==
    /\ timing_stats' = update(timing_stats, initialize(sample.time_taken))
    /\ conn_stats' = update(conn_stats, initialize(sample.connections))
    /\ memory_stats' = update(memory_stats, initialize(sample.memory))
    /\ totals' = update_totals(totals, sample)
    /\ new_second' = with_nanosecond_0(sample.started_at)
    /\ pc' = IF advances(with_nanosecond_0(sample.started_at), current_second)
             THEN "advance" ELSE "select"
    /\ metrics' = IF advances(with_nanosecond_0(sample.started_at), current_second)
                  THEN Some(sample) ELSE None
    /\ folded' = IF logged
                  THEN folded (+) SetToBag({
                         [second |-> current_second,
                          started |-> with_nanosecond_0(sample.started_at),
                          time_taken |-> sample.time_taken,
                          connections |-> sample.connections,
                          memory |-> sample.memory]})
                  ELSE folded
    /\ received' = received + 1
    /\ NoResponse
    /\ UNCHANGED <<config, buffers, last_second, broadcast, current_second,
                   message, stats_pc, stats_input, accumulated, fold_vars,
                   pushed>>

\* select!: recv_async() => stats_processor(Some(metrics)), for a sample of
\* any content; a run receives at most `limit` samples.
RecvSample(logged, limit) ==
    /\ pc = "select"
    /\ received < limit
    /\ \E sample \in Samples : stats_processor_some(sample, logged)
    /\ UNCHANGED env_vars

\* stats_processor(Some(sample)) up to the await before the totals are
\* locked, for a sample of any content: the accumulators are updated.
UpdateAccumulators(limit) ==
    /\ pc = "select"
    /\ received < limit
    /\ \E sample \in Samples :
        /\ timing_stats' = update(timing_stats, initialize(sample.time_taken))
        /\ conn_stats' = update(conn_stats, initialize(sample.connections))
        /\ memory_stats' = update(memory_stats, initialize(sample.memory))
        /\ metrics' = Some(sample)
    /\ pc' = "totals"
    /\ received' = received + 1
    /\ NoResponse
    /\ UNCHANGED <<config, totals, buffers, last_second, broadcast,
                   current_second, new_second, message, stats_pc, stats_input,
                   folded, accumulated, fold_vars, pushed, env_vars>>

\* stats_processor(Some(sample)) from the lock of the totals up to the test
\* of new_second.
UpdateTotals ==
    /\ pc = "totals"
    /\ LET sample == unwrap(metrics) IN
        /\ totals' = update_totals(totals, sample)
        /\ new_second' = with_nanosecond_0(sample.started_at)
        /\ pc' = IF advances(with_nanosecond_0(sample.started_at), current_second)
                 THEN "advance" ELSE "select"
        /\ metrics' = IF advances(with_nanosecond_0(sample.started_at),
                                  current_second)
                      THEN Some(sample) ELSE None
    /\ NoResponse
    /\ UNCHANGED <<config, buffers, last_second, broadcast, current_second,
                   timing_stats, conn_stats, memory_stats, message, stats_pc,
                   stats_input, received, folded, accumulated, fold_vars,
                   pushed, env_vars>>

\* select!: recv_async() takes the oldest sample off the queue.
RecvQueued ==
    /\ pc = "select"
    /\ receiver
    /\ queue # None
    /\ unwrap(queue) # <<>>
    /\ metrics' = Some(Head(unwrap(queue)))
    /\ queue' = Some(Tail(unwrap(queue)))
    /\ pc' = "received"
    /\ NoResponse
    /\ UNCHANGED <<config, totals, buffers, last_second, broadcast,
                   current_second, timing_stats, conn_stats, memory_stats,
                   new_second, message, stats_pc, stats_input, received,
                   folded, accumulated, fold_vars, pushed, started_at,
                   requests, connections, receiver, senders, locks,
                   broadcaster, hooks, feed>>

\* stats_processor(Some(response_time)) for the sample taken off the queue.
ProcessQueued ==
    /\ pc = "received"
    /\ stats_processor_some(unwrap(metrics), FALSE)
    /\ UNCHANGED env_vars

\* The last sending end of the queue is dropped: AppStateStats::queue is
\* taken out of the state. The samples already sent stay in the channel.
DropSender ==
    /\ pc \in {"select", "received", "advance", "commit", "publish"}
    /\ senders = 1
    /\ senders' = 0
    /\ NoResponse
    /\ UNCHANGED <<config, totals, buffers, last_second, broadcast,
                   worker_vars, stats_pc, stats_input, received, folded,
                   accumulated, fold_vars, pushed, started_at, requests,
                   connections, queue, receiver, locks, broadcaster, hooks,
                   feed>>

\* A receive that never reports the disconnection.
recv_disconnected_never(channel, handles) == FALSE

\* recv_async() returns Err: the channel is empty and no sending end is
\* left.
recv_disconnected(channel, handles) == channel = <<>> /\ handles = 0

\* select!: recv_async() => Err: the error is logged and the loop is left;
\* the task ends and drops the receiver.
RecvDisconnected ==
    /\ pc = "select"
    /\ receiver
    /\ queue # None
    /\ recv_disconnected(unwrap(queue), senders)
    /\ pc' = "stopped"
    /\ receiver' = FALSE
    /\ NoResponse
    /\ UNCHANGED <<config, totals, buffers, last_second, broadcast,
                   current_second, timing_stats, conn_stats, memory_stats,
                   metrics, new_second, message, stats_pc, stats_input,
                   received, folded, accumulated, fold_vars, pushed,
                   started_at, requests, connections, queue, senders,
                   locks, broadcaster, hooks, feed>>

\* The entries an advance pushes to a buffer, newest first: the accumulated
\* stats stamped with the current second, then an empty entry for each
\* further second.
PushedBy(stats, second, elapsed) ==
    [j \in 1..elapsed |->
        IF j = elapsed
        THEN [stats EXCEPT !.started_at = second]
        ELSE [Default EXCEPT !.started_at = AddSeconds(second, elapsed - j)]]

\* The section of stats_processor under the buffers write lock.
\* With `logged`, the step also records the entries it pushes in `pushed`.
WriteBuffers(logged) ==
    /\ pc = "advance"
    /\ pushed' =
          IF logged
          THEN LET elapsed == num_seconds(new_second, current_second) IN
               [responses   |-> PushedBy(timing_stats, current_second, elapsed)
                                    \o pushed.responses,
                connections |-> PushedBy(conn_stats, current_second, elapsed)
                                    \o pushed.connections,
                memory      |-> PushedBy(memory_stats, current_second, elapsed)
                                    \o pushed.memory]
          ELSE pushed
    /\ LET elapsed == num_seconds(new_second, current_second)
           t == update_buffer(buffers.responses, config.timing_buffer_size,
                    timing_stats, current_second, elapsed, Default)
           c == update_buffer(buffers.connections, config.connection_buffer_size,
                    conn_stats, current_second, elapsed, Default)
           m == update_buffer(buffers.memory, config.memory_buffer_size,
                    memory_stats, current_second, elapsed, Default)
       IN  /\ buffers' = [responses |-> t.buffer, connections |-> c.buffer,
                          memory |-> m.buffer]
           /\ timing_stats' = t.stats
           /\ conn_stats' = c.stats
           /\ memory_stats' = m.stats
           /\ message' = [times |-> t.field, connections |-> c.field,
                          memory |-> m.field]
    /\ accumulated' = Some(
          [times       |-> [timing_stats EXCEPT !.started_at = current_second],
           connections |-> [conn_stats EXCEPT !.started_at = current_second],
           memory      |-> [memory_stats EXCEPT !.started_at = current_second]])
    /\ pc' = "commit"
    /\ NoResponse
    /\ UNCHANGED <<config, totals, last_second, broadcast, current_second,
                   metrics, new_second, stats_pc, stats_input, received,
                   folded, fold_vars, env_vars>>

\* *last_second.write() = *current_second; *current_second = new_second.
Commit ==
    /\ pc = "commit"
    /\ last_second' = current_second
    /\ current_second' = new_second
    /\ pc' = "publish"
    /\ NoResponse
    /\ UNCHANGED <<config, totals, buffers, broadcast, timing_stats,
                   conn_stats, memory_stats, metrics, new_second, message,
                   stats_pc, stats_input, received, folded, accumulated,
                   fold_vars, pushed, env_vars>>

\* broadcaster.send(message), and the return of stats_processor.
Publish ==
    /\ pc = "publish"
    /\ broadcast' = send(broadcast, message)
    /\ pc' = "select"
    /\ metrics' = None
    /\ accumulated' = None
    /\ NoResponse
    /\ UNCHANGED <<config, totals, buffers, last_second, current_second,
                   timing_stats, conn_stats, memory_stats, new_second,
                   message, stats_pc, stats_input, received, folded,
                   fold_vars, pushed, env_vars>>

\* ------------------------------------------------- start_stats_processor
\* With telemetry disabled the call returns at once. Otherwise the sender and
\* the broadcaster are installed and current_second is read; the sleep until
\* the next second then panics on a clock reading more than a second later
\* (to_std() of a negative duration), which drops the receiver; else the
\* worker is spawned.
start_stats_processor ==
    /\ pc = "unstarted"
    /\ IF ~config.enabled
       THEN /\ pc' = "disabled"
            /\ UNCHANGED <<queue, receiver, senders, broadcaster,
                           current_second, new_second>>
       ELSE \E reading \in StartReadings, wake \in Clock :
            /\ queue' = Some(<<>>)
            /\ senders' = 1
            /\ broadcaster' = Some("tx")
            /\ current_second' = with_nanosecond_0(reading)
            /\ new_second' = with_nanosecond_0(reading)
            /\ IF Earlier(AddSeconds(with_nanosecond_0(reading), 1), wake)
               THEN pc' = "panicked" /\ receiver' = FALSE
               ELSE pc' = "select" /\ receiver' = TRUE
    /\ NoResponse
    /\ UNCHANGED <<config, totals, buffers, last_second, broadcast,
                   timing_stats, conn_stats, memory_stats, metrics, message,
                   stats_pc, stats_input, received, folded, accumulated,
                   fold_vars, pushed, started_at, requests, connections,
                   locks, hooks, feed>>

\* ------------------------------------------------------------ stats_layer
\* What the clock can read inside the capture hook: two readings within each
\* second, MaxMicros microseconds apart.
HookReadings ==
    {[secs |-> t.secs, nanos |-> t.nanos + k * 1000 * MaxMicros] :
        t \in Starts, k \in 0..1}

\* TimeDelta::num_microseconds, of a - b.
num_microseconds(a, b) ==
    (a.secs - b.secs) * 1000000 + (a.nanos - b.nanos) \div 1000

\* `as u64` of a signed or a narrower integer.
as_u64(x) == x % (2^U64Bits)

\* fetch_sub(1) on an AtomicUsize wraps around.
fetch_sub(x) == (x - 1) % (2^U64Bits)

\* The endpoint each request asks for, and the status codes the handlers
\* answer with.
Endpoints == <<"GET /", "GET /api/ping">>
request_endpoint(r) == Endpoints[((r - 1) % Len(Endpoints)) + 1]
StatusCodes == {r.status_code : r \in Requests}

\* Malloc::read(): Ok of the bytes allocated, or Err.
AllocatorReadings == {Some(2), None}

\* A hook that never returns early.
hook_enabled_always(cfg) == TRUE

\* The test of the early return of stats_layer.
hook_enabled(cfg) == cfg.enabled

\* The frame of a step of the capture hook.
HookFrame ==
    /\ NoResponse
    /\ UNCHANGED <<config, totals, buffers, last_second, broadcast,
                   worker_vars, stats_pc, stats_input, received, folded,
                   accumulated, fold_vars, pushed, started_at, receiver,
                   senders, locks, broadcaster, feed>>

\* stats_layer up to next.run, the clock reading one of `readings`: the
\* context is created and attached, and, unless telemetry is disabled, the
\* endpoint is taken and the two counters are incremented.
Enter(r, readings) ==
    /\ hooks[r].pc = "arriving"
    /\ \E reading \in readings :
        IF hook_enabled(config)
        THEN /\ requests' = requests + 1
             /\ connections' = connections + 1
             /\ hooks' = [hooks EXCEPT ![r] =
                    [@ EXCEPT !.pc = "handling",
                              !.started_at = Some(reading),
                              !.endpoint = Some(request_endpoint(r))]]
        ELSE /\ hooks' = [hooks EXCEPT ![r] =
                    [@ EXCEPT !.pc = "passing",
                              !.started_at = Some(reading)]]
             /\ UNCHANGED <<requests, connections>>
    /\ UNCHANGED queue
    /\ HookFrame

\* The ResponseMetrics the hook builds for the response `status_code` at
\* clock reading `now`, the allocator reporting `allocated` bytes.
ResponseMetrics(hook, status_code, now, allocated) ==
    [endpoint    |-> unwrap(hook.endpoint),
     started_at  |-> unwrap(hook.started_at),
     time_taken  |-> as_u64(num_microseconds(now, unwrap(hook.started_at))),
     status_code |-> status_code,
     connections |-> as_u64(connections),
     memory      |-> as_u64(allocated)]

\* A send that gives up the response when the sample cannot be sent.
response_after_send_checked(channel, response) ==
    IF channel = None \/ ~receiver THEN None ELSE response

\* What the hook goes on to return once the result of the send is dropped.
response_after_send(channel, response) == response

\* A send that loses the sample.
queue_send_lost(channel, sample) == channel

\* Sender::send: the sample joins the queue unless the receiver is gone.
queue_send(channel, sample) ==
    IF receiver THEN Append(channel, sample) ELSE channel

\* next.run(request).await and stats_layer up to the decrement, the clock
\* reading one of `readings` within the second the request started in. With
\* telemetry disabled the hook returns the answer of the handler at once.
\* Otherwise, with a sender installed, the sample is built and sent, the
\* result of the send being dropped; unwrap() of a failed allocator query
\* panics.
\* With `logged`, the step also keeps the reading and the sample built.
Handle(r, readings, logged) ==
    /\ hooks[r].pc \in {"handling", "passing"}
    /\ \E status_code \in StatusCodes :
        IF hooks[r].pc = "passing"
        THEN /\ hooks' = [hooks EXCEPT ![r] =
                    [NotArrived EXCEPT !.pc = "returned",
                                       !.response = Some(status_code),
                                       !.returned = Some(status_code)]]
             /\ UNCHANGED queue
        ELSE IF queue = None \/ senders = 0
        THEN /\ hooks' = [hooks EXCEPT ![r] =
                    [NotArrived EXCEPT !.pc = "leaving",
                        !.response = response_after_send(queue, Some(status_code))]]
             /\ UNCHANGED queue
        ELSE \E now \in {t \in readings :
                            t.secs = unwrap(hooks[r].started_at).secs},
                allocated \in AllocatorReadings :
            IF allocated = None
            THEN /\ hooks' = [hooks EXCEPT ![r] =
                        [NotArrived EXCEPT !.pc = "panicked",
                                           !.query_failed = TRUE]]
                 /\ UNCHANGED queue
            ELSE LET sample == ResponseMetrics(hooks[r], status_code, now,
                                               unwrap(allocated))
                 IN  /\ queue' = Some(queue_send(unwrap(queue), sample))
                     /\ hooks' = [hooks EXCEPT ![r] =
                            [NotArrived EXCEPT
                                !.pc = "leaving",
                                !.response = response_after_send(
                                                 queue, Some(status_code)),
                                !.now = IF logged THEN Some(now) ELSE None,
                                !.sample = IF logged THEN Some(sample) ELSE None]]
    /\ UNCHANGED <<requests, connections>>
    /\ HookFrame

\* connections.fetch_sub(1), and the return of the response.
Leave(r) ==
    /\ hooks[r].pc = "leaving"
    /\ connections' = fetch_sub(connections)
    /\ hooks' = [hooks EXCEPT ![r] =
            [NotArrived EXCEPT !.pc = "returned",
                               !.response = hooks[r].response,
                               !.returned = hooks[r].response]]
    /\ UNCHANGED <<requests, queue>>
    /\ HookFrame

\* ---------------------------------------------------------- ws_stats_feed
\* Instant::now(): the time on the monotonic clock in whole seconds, and the
\* number of instants taken before, which orders the instants of one second.
Instant(f) == [at |-> f.clock, seq |-> f.instants]

\* ws_stats_feed up to its loop, for the given ws_ping_interval and
\* ws_ping_timeout: the first tick of each interval is due at once.
\* unanswered is the time of the earliest ping sent since the last pong
\* came in, closed_by why the loop ended.
Subscribed(ws_ping_interval, ws_ping_timeout) ==
    [open             |-> TRUE,
     ws_ping_interval |-> ws_ping_interval,
     ws_ping_timeout  |-> ws_ping_timeout,
     clock            |-> 0,
     instants         |-> 1,
     timer            |-> 0,
     timeout          |-> 0,
     last_ping        |-> None,
     last_pong        |-> [at |-> 0, seq |-> 0],
     incoming         |-> 0,
     unanswered       |-> None,
     closed_by        |-> None]

\* A live feed for every ws_ping_interval and ws_ping_timeout of
\* 1..MaxPing.
FeedInit ==
    \E start \in StartReadings, i \in 1..MaxPing, t \in 1..MaxPing :
        /\ Constructed(start, TRUE, <<MaxCap, 0, 1>>, [second |-> 1, minute |-> 2])
        /\ Started(start)
        /\ feed = Subscribed(i, t)

\* The frame of a step of the live feed.
FeedFrame ==
    /\ NoResponse
    /\ UNCHANGED <<config, totals, buffers, last_second, broadcast,
                   worker_vars, stats_pc, stats_input, received, folded,
                   accumulated, fold_vars, pushed, started_at, requests,
                   connections, queue, receiver, senders, locks,
                   broadcaster, hooks>>

\* The loop ended.
Closed(f, why) == [open |-> FALSE, closed_by |-> Some(why)]

\* A second passes while no tick is due.
FeedWait ==
    /\ feed.open
    /\ feed.clock < MaxFeedTime
    /\ feed.timer > feed.clock
    /\ feed.timeout > feed.clock
    /\ feed' = [feed EXCEPT !.clock = @ + 1]
    /\ FeedFrame

\* timer.tick(): a ping is sent and last_ping is set, or the send fails and
\* the loop ends.
FeedPing ==
    /\ feed.open
    /\ feed.timer <= feed.clock
    /\ \E sent \in BOOLEAN :
        feed' = IF sent
                THEN [feed EXCEPT !.last_ping = Some(Instant(feed)),
                                  !.instants = @ + 1,
                                  !.timer = @ + feed.ws_ping_interval,
                                  !.unanswered = IF @ = None
                                                 THEN Some(feed.clock) ELSE @]
                ELSE Closed(feed, "send")
    /\ FeedFrame

\* ping_time.elapsed() > limit at a time on the clock: the elapsed time
\* exceeds the whole seconds between the two, by less than a second.
Elapsed(ping_time, clock, limit) ==
    IF clock - ping_time.at = limit THEN BOOLEAN ELSE {clock - ping_time.at > limit}

\* timeout.tick(): the loop ends if a ping has been sent, no pong has come in
\* since, and the ping is older than ws_ping_timeout.
FeedTimeout ==
    /\ feed.open
    /\ feed.timeout <= feed.clock
    /\ \E elapsed \in IF feed.last_ping = None THEN {FALSE}
                       ELSE Elapsed(unwrap(feed.last_ping), feed.clock,
                                    feed.ws_ping_timeout) :
        feed' = IF /\ feed.last_ping # None
                   /\ feed.last_pong.seq < unwrap(feed.last_ping).seq
                   /\ elapsed
                THEN Closed(feed, "timeout")
                ELSE [feed EXCEPT !.timeout = @ + feed.ws_ping_timeout]
    /\ FeedFrame

\* ws.recv(): a pong sets last_pong; a ping is answered, unless the send
\* fails; a close or an error ends the loop; text is ignored.
FeedRecv ==
    /\ feed.open
    /\ feed.incoming < MaxIncoming
    /\ \E msg \in {"Pong", "Ping", "PingUnanswerable", "Close", "Text", "Err"} :
        feed' = CASE msg = "Pong" ->
                       [feed EXCEPT !.last_pong = Instant(feed),
                                    !.instants = @ + 1,
                                    !.incoming = @ + 1,
                                    !.unanswered = None]
                  [] msg \in {"Ping", "Text"} ->
                       [feed EXCEPT !.incoming = @ + 1]
                  [] msg = "PingUnanswerable" -> Closed(feed, "send")
                  [] msg = "Close" -> Closed(feed, "close")
                  [] msg = "Err" -> Closed(feed, "error")
    /\ FeedFrame

\* ----------------------------------------------------------- the handlers
\* StatsResponseForPeriod::from(&StatsForPeriod).
StatsResponseForPeriod(stats) ==
    [average |-> stats.average, maximum |-> stats.maximum,
     minimum |-> stats.minimum, count |-> stats.count]

\* A period that takes one entry too many.
in_period_inclusive(i, period) == i <= period

\* initialize_map: whether the entry at index i belongs to a period.
in_period(i, period) == i < period

\* initialize_map from the k-th entry of the buffer on (k = i + 1).
RECURSIVE initialize_map_from(_, _, _, _)
initialize_map_from(k, periods, buffer, output) ==
    IF k > Len(buffer)
    THEN output
    ELSE initialize_map_from(k + 1, periods, buffer,
            [name \in DOMAIN periods |->
                IF in_period(k - 1, periods[name])
                THEN update(output[name], buffer[k]) ELSE output[name]])

initialize_map(periods, buffer) ==
    initialize_map_from(1, periods, buffer, [name \in DOMAIN periods |-> Default])

convert_map(input, all) ==
    [key \in DOMAIN input \cup {"all"} |->
        IF key = "all" THEN StatsResponseForPeriod(all)
        ELSE StatsResponseForPeriod(input[key])]

\* get_stats: the section under the buffers read lock.
GetStatsBuffers ==
    /\ stats_pc = "idle"
    /\ stats_input' = Some(
          [times       |-> initialize_map(config.periods, buffers.responses),
           connections |-> initialize_map(config.periods, buffers.connections),
           memory      |-> initialize_map(config.periods, buffers.memory)])
    /\ stats_pc' = "totals"
    /\ NoResponse
    /\ UNCHANGED <<config, totals, buffers, last_second, broadcast,
                   worker_vars, received, folded, accumulated, fold_vars, pushed, env_vars>>

\* get_stats: the section under the totals lock, and the response, built at
\* one of the clock readings `readings`.
GetStatsTotalsAt(readings) ==
    /\ stats_pc = "totals"
    /\ \E reading \in readings :
        /\ stats_now' = Some(reading)
        /\ stats_response' = Some(
              [started_at  |-> with_nanosecond_0(started_at),
               last_second |-> last_second,
               uptime      |-> as_u64(num_seconds(reading, started_at)),
               active      |-> as_u64(connections),
               requests    |-> as_u64(requests),
               codes       |-> totals.codes,
               times       |-> convert_map(unwrap(stats_input).times, totals.times),
               endpoints   |-> [e \in DOMAIN totals.endpoints |->
                                   StatsResponseForPeriod(totals.endpoints[e])],
               connections |-> convert_map(unwrap(stats_input).connections,
                                           totals.connections),
               memory      |-> convert_map(unwrap(stats_input).memory,
                                           totals.memory)])
    /\ stats_pc' = "idle"
    /\ stats_input' = None
    /\ history_response' = None
    /\ UNCHANGED <<config, totals, buffers, last_second, broadcast,
                   worker_vars, received, folded, accumulated, fold_vars,
                   pushed, started_at, requests, connections, queue,
                   receiver, senders, locks, broadcaster, hooks, feed>>

\* An overview read at the clock reading the state was constructed at.
GetStatsTotals == GetStatsTotalsAt({started_at})

\* process_buffer: how many entries take_while lets through.
take_while(buffer, from) ==
    IF from = None THEN Len(buffer)
    ELSE CHOOSE k \in 0..Len(buffer) :
            /\ \A j \in 1..k : ~Earlier(buffer[j].started_at, unwrap(from))
            /\ k = Len(buffer) \/ Earlier(buffer[k + 1].started_at, unwrap(from))

\* rubedo's Iterator::limit(Option<usize>).
limit_count(n, limit) ==
    IF limit = None \/ unwrap(limit) > n THEN n ELSE unwrap(limit)

process_buffer(buffer, from, limit) ==
    [j \in 1..limit_count(take_while(buffer, from), limit) |->
        StatsResponseForPeriod(buffer[j])]

\* The query parameters of a history request.
HistoryParams ==
    [buffer : {None, Some("times"), Some("connections"), Some("memory")},
     from   : {None} \cup {Some(with_nanosecond_0(t)) : t \in Clock},
     limit  : {None} \cup {Some(n) : n \in 0..MaxCap}]

get_stats_history ==
    /\ \E params \in HistoryParams :
        history_response' = Some(
          [last_second |-> last_second,
           times       |-> IF params.buffer \in {None, Some("times")}
                           THEN process_buffer(buffers.responses, params.from, params.limit)
                           ELSE <<>>,
           connections |-> IF params.buffer \in {None, Some("connections")}
                           THEN process_buffer(buffers.connections, params.from, params.limit)
                           ELSE <<>>,
           memory      |-> IF params.buffer \in {None, Some("memory")}
                           THEN process_buffer(buffers.memory, params.from, params.limit)
                           ELSE <<>>])
    /\ stats_response' = None
    /\ stats_now' = None
    /\ UNCHANGED <<config, totals, buffers, last_second, broadcast,
                   worker_vars, stats_pc, stats_input, received, folded,
                   accumulated, fold_vars, pushed, env_vars>>

\* --------------------------------------------------------- folding values
\* The values a fold can take.
FoldValues == 0..MaxValue

\* fold_stats.update(&StatsForPeriod::initialize(value)).
FoldValue ==
    /\ Len(fold_values) < MaxFold
    /\ \E value \in FoldValues :
        /\ fold_stats' = update(fold_stats, initialize(value))
        /\ fold_values' = Append(fold_values, value)
    /\ UNCHANGED <<config, totals, buffers, last_second, broadcast,
                   worker_vars, stats_pc, stats_input, stats_response,
                   history_response, received, folded, accumulated, pushed,
                   env_vars, stats_now>>

\* --------------------------------------------------------- specifications
\* The worker.
Next ==
    \/ Tick
    \/ RecvSample(FALSE, MaxSamples)
    \/ WriteBuffers(FALSE)
    \/ Commit
    \/ Publish

Spec == Init /\ [][Next]_vars

\* The worker, with the record of the samples it has received.
SamplesNext ==
    \/ Tick
    \/ RecvSample(TRUE, MaxRecorded)
    \/ WriteBuffers(FALSE)
    \/ Commit
    \/ Publish

SamplesSpec == FixedInit /\ [][SamplesNext]_vars

\* The worker and an overview request.
OverviewNext ==
    \/ Tick
    \/ RecvSample(FALSE, MaxRecorded)
    \/ WriteBuffers(FALSE)
    \/ Commit
    \/ Publish
    \/ GetStatsBuffers
    \/ GetStatsTotals

OverviewSpec == OverviewInit /\ [][OverviewNext]_vars

\* The worker and history requests.
HistoryNext ==
    \/ Tick
    \/ RecvSample(FALSE, MaxRecorded)
    \/ WriteBuffers(FALSE)
    \/ Commit
    \/ Publish
    \/ get_stats_history

HistorySpec == Init /\ [][HistoryNext]_vars

\* The worker, with the record of the entries it has pushed, under a clock
\* that runs a second longer.
EvictionNext ==
    \/ TickAt(LongClock)
    \/ RecvSample(FALSE, MaxRecorded)
    \/ WriteBuffers(TRUE)
    \/ Commit
    \/ Publish

EvictionSpec == Init /\ [][EvictionNext]_vars

\* The capture hook and the worker, the worker having been started: the
\* requests start and end within the second the worker started in, and the
\* worker ticks in that second and in the next.
ServeNext ==
    \/ \E r \in Requesters : Enter(r, StartReadings)
    \/ \E r \in Requesters : Handle(r, StartReadings, FALSE)
    \/ \E r \in Requesters : Leave(r)
    \/ TickAt(EarlyClock)
    \/ RecvQueued
    \/ ProcessQueued
    \/ WriteBuffers(FALSE)
    \/ Commit
    \/ Publish

ServeSpec == FixedInit /\ [][ServeNext]_vars

\* The capture hook and the worker, from before the call of
\* start_stats_processor, with the requests and the ticks of ServeNext.
StartupNext ==
    \/ start_stats_processor
    \/ \E r \in Requesters : Enter(r, StartReadings)
    \/ \E r \in Requesters : Handle(r, StartReadings, FALSE)
    \/ \E r \in Requesters : Leave(r)
    \/ TickAt(EarlyClock)
    \/ RecvQueued
    \/ ProcessQueued
    \/ WriteBuffers(FALSE)
    \/ Commit
    \/ Publish

StartupSpec == StartupInit /\ [][StartupNext]_vars

\* The capture hook alone, under a clock with two readings in each second,
\* with the record of the reading and of the sample of each exit.
TimeTakenNext ==
    \/ \E r \in Requesters : Enter(r, HookReadings)
    \/ \E r \in Requesters : Handle(r, HookReadings, TRUE)
    \/ \E r \in Requesters : Leave(r)

TimeTakenSpec == FixedInit /\ [][TimeTakenNext]_vars

\* Every clock reading for the construction of the state, under one
\* configuration.
UptimeInit ==
    \E start \in Clock :
        InitAt(start, <<MaxCap, 0, 1>>, [second |-> 1, minute |-> 2])

\* Overview requests at every clock reading, and the capture hook for
\* requests within the first second.
UptimeNext ==
    \/ GetStatsBuffers
    \/ GetStatsTotalsAt(Clock)
    \/ \E r \in Requesters : Enter(r, StartReadings)
    \/ \E r \in Requesters : Handle(r, StartReadings, FALSE)
    \/ \E r \in Requesters : Leave(r)

UptimeSpec == UptimeInit /\ [][UptimeNext]_vars

\* The live feed.
FeedNext ==
    \/ FeedWait
    \/ FeedPing
    \/ FeedTimeout
    \/ FeedRecv

FeedSpec == FeedInit /\ [][FeedNext]_vars

\* Values folded one at a time into a default StatsForPeriod.
FoldSpec == FixedInit /\ [][FoldValue]_vars

\* The worker, a sample being folded in two steps, with the record of the
\* entries it has pushed, under a clock that runs a second longer.
AccumulateNext ==
    \/ TickAt(LongClock)
    \/ UpdateAccumulators(MaxRecorded)
    \/ UpdateTotals
    \/ WriteBuffers(TRUE)
    \/ Commit
    \/ Publish

AccumulateSpec == FixedInit /\ [][AccumulateNext]_vars

\* ------------------------------------------------------ the three locks
\* parking_lot::Mutex::lock(): granted when nobody holds the mutex.
mutex_free(holders) == holders = {}

\* parking_lot::RwLock::write(): granted when nobody holds the lock.
write_free(writers, readers) == writers = {} /\ readers = {}

\* parking_lot::RwLock::read(): granted when no writer holds the lock and no
\* writer waits for it (the lock is task-fair: a reader blocks behind a
\* waiting writer). The worker is the only writer.
read_free(writers, waiting) == writers = {} /\ ~waiting

\* A guard on the buffers that is not dropped.
drop_buffers_deferred(l) == l

\* drop(buffers) in stats_processor.
drop_buffers(l) == [l EXCEPT !.buffers_write = {}]

\* User p goes from one position to the next, the locks becoming l.
LockStep(p, from, to, l) ==
    /\ locks.at[p] = from
    /\ locks' = [l EXCEPT !.at[p] = to]
    /\ UNCHANGED <<config, totals, buffers, last_second, broadcast,
                   worker_vars, stats_pc, stats_input, stats_response,
                   history_response, received, folded, accumulated, fold_vars,
                   pushed, started_at, requests, connections, queue, receiver,
                   senders, broadcaster, hooks, feed, stats_now>>

\* stats_processor is called, with a sample or on a tick.
WorkerCalls ==
    \E to \in {"want_totals", "test"} : LockStep(Worker, "idle", to, locks)

\* totals.lock(), the updates, drop(totals).
WorkerLocksTotals ==
    /\ mutex_free(locks.totals)
    /\ LockStep(Worker, "want_totals", "in_totals",
                [locks EXCEPT !.totals = {Worker}])

WorkerDropsTotals ==
    LockStep(Worker, "in_totals", "test", [locks EXCEPT !.totals = {}])

\* if new_second > *current_second.
WorkerTests ==
    \E to \in {"want_buffers", "idle"} : LockStep(Worker, "test", to, locks)

\* buffers.write(), the pushes, drop(buffers).
WorkerLocksBuffers ==
    /\ write_free(locks.buffers_write, locks.buffers_read)
    /\ LockStep(Worker, "want_buffers", "in_buffers",
                [locks EXCEPT !.buffers_write = {Worker}])

WorkerDropsBuffers ==
    LockStep(Worker, "in_buffers", "want_last_second", drop_buffers(locks))

\* *last_second.write() = *current_second: the guard lives for the statement.
WorkerLocksLastSecond ==
    /\ write_free(locks.last_second_write, locks.last_second_read)
    /\ LockStep(Worker, "want_last_second", "in_last_second",
                [locks EXCEPT !.last_second_write = {Worker}])

WorkerDropsLastSecond ==
    LockStep(Worker, "in_last_second", "idle",
             [locks EXCEPT !.last_second_write = {}])

\* A request reaches get_stats or get_stats_history.
HandlerCalls(p) ==
    \E to \in {"stats_want_buffers", "history_want_buffers"} :
        LockStep(p, "idle", to, locks)

\* get_stats: buffers.read(), the folds, drop(buffers).
StatsLocksBuffers(p) ==
    /\ read_free(locks.buffers_write, locks.at[Worker] = "want_buffers")
    /\ LockStep(p, "stats_want_buffers", "stats_in_buffers",
                [locks EXCEPT !.buffers_read = @ \cup {p}])

StatsDropsBuffers(p) ==
    LockStep(p, "stats_in_buffers", "stats_want_totals",
             [locks EXCEPT !.buffers_read = @ \ {p}])

\* get_stats: totals.lock().
StatsLocksTotals(p) ==
    /\ mutex_free(locks.totals)
    /\ LockStep(p, "stats_want_totals", "stats_want_last_second",
                [locks EXCEPT !.totals = {p}])

\* get_stats: *last_second.read() while the response is built under the
\* totals guard; the read guard lives for the expression.
StatsLocksLastSecond(p) ==
    /\ read_free(locks.last_second_write,
                 locks.at[Worker] = "want_last_second")
    /\ LockStep(p, "stats_want_last_second", "stats_in_last_second",
                [locks EXCEPT !.last_second_read = @ \cup {p}])

StatsDropsLastSecond(p) ==
    LockStep(p, "stats_in_last_second", "stats_in_totals",
             [locks EXCEPT !.last_second_read = @ \ {p}])

\* get_stats: drop(totals).
StatsDropsTotals(p) ==
    LockStep(p, "stats_in_totals", "idle", [locks EXCEPT !.totals = {}])

\* get_stats_history: buffers.read().
HistoryLocksBuffers(p) ==
    /\ read_free(locks.buffers_write, locks.at[Worker] = "want_buffers")
    /\ LockStep(p, "history_want_buffers", "history_want_last_second",
                [locks EXCEPT !.buffers_read = @ \cup {p}])

\* get_stats_history: *last_second.read() under the buffers guard.
HistoryLocksLastSecond(p) ==
    /\ read_free(locks.last_second_write,
                 locks.at[Worker] = "want_last_second")
    /\ LockStep(p, "history_want_last_second", "history_in_last_second",
                [locks EXCEPT !.last_second_read = @ \cup {p}])

HistoryDropsLastSecond(p) ==
    LockStep(p, "history_in_last_second", "history_in_buffers",
             [locks EXCEPT !.last_second_read = @ \ {p}])

\* get_stats_history: drop(buffers).
HistoryDropsBuffers(p) ==
    LockStep(p, "history_in_buffers", "idle",
             [locks EXCEPT !.buffers_read = @ \ {p}])

\* The worker goes on inside a call of stats_processor.
WorkerProceeds ==
    \/ WorkerLocksTotals
    \/ WorkerDropsTotals
    \/ WorkerTests
    \/ WorkerLocksBuffers
    \/ WorkerDropsBuffers
    \/ WorkerLocksLastSecond
    \/ WorkerDropsLastSecond

\* Handler p goes on inside its call.
HandlerProceeds(p) ==
    \/ StatsLocksBuffers(p)
    \/ StatsDropsBuffers(p)
    \/ StatsLocksTotals(p)
    \/ StatsLocksLastSecond(p)
    \/ StatsDropsLastSecond(p)
    \/ StatsDropsTotals(p)
    \/ HistoryLocksBuffers(p)
    \/ HistoryLocksLastSecond(p)
    \/ HistoryDropsLastSecond(p)
    \/ HistoryDropsBuffers(p)

\* The worker and the handlers, as users of the three locks.
LockNext ==
    \/ WorkerCalls
    \/ WorkerProceeds
    \/ \E p \in Handlers : HandlerCalls(p)
    \/ \E p \in Handlers : HandlerProceeds(p)

\* A user inside a call keeps running, and the locks of parking_lot are
\* fair: a request that can be granted again and again is granted.
LockFairness ==
    /\ SF_locks(WorkerProceeds)
    /\ \A p \in Handlers : SF_locks(HandlerProceeds(p))

LockSpec == FixedInit /\ [][LockNext]_vars /\ LockFairness

\* The capture hook and the worker, the sending end of the queue being
\* dropped at any moment.
DisconnectNext ==
    \/ \E r \in Requesters : Enter(r, StartReadings)
    \/ \E r \in Requesters : Handle(r, StartReadings, FALSE)
    \/ \E r \in Requesters : Leave(r)
    \/ DropSender
    \/ TickAt(EarlyClock)
    \/ RecvQueued
    \/ RecvDisconnected
    \/ ProcessQueued
    \/ WriteBuffers(FALSE)
    \/ Commit
    \/ Publish

\* The worker goes on inside stats_processor: the step of ProcessQueued, of
\* WriteBuffers, of Commit or of Publish, each the only step that moves pc
\* from its position.
Proceeds ==
    \/ pc = "received" /\ pc' \in {"select", "advance"}
    \/ pc = "advance" /\ pc' = "commit"
    \/ pc = "commit" /\ pc' = "publish"
    \/ pc = "publish" /\ pc' = "select"

\* The worker takes the receive branch of select!: the step of RecvQueued or
\* of RecvDisconnected, ready when the channel holds a sample or is
\* disconnected.
Receives ==
    /\ pc = "select"
    /\ receiver
    /\ queue # None
    /\ unwrap(queue) # <<>> \/ recv_disconnected(unwrap(queue), senders)
    /\ pc' \in {"received", "stopped"}

\* select! polls its ready branches in random order, so the receive, which
\* stays ready while the channel holds a sample or is disconnected, is taken
\* however often the timer is ready; and stats_processor, once called, runs
\* to its end.
DisconnectFairness ==
    /\ WF_pc(Receives)
    /\ WF_pc(Proceeds)

DisconnectSpec == FixedInit /\ [][DisconnectNext]_vars /\ DisconnectFairness

\* The readings of Utc::now() in a second later than current_second.
LaterReadings ==
    {t \in LongClock : Earlier(current_second, with_nanosecond_0(t))}

\* The worker under a clock that runs a second longer, with the record of
\* the entries it has pushed.
TickingNext ==
    \/ TickAt(LongClock)
    \/ RecvSample(FALSE, MaxRecorded)
    \/ WriteBuffers(TRUE)
    \/ Commit
    \/ Publish

\* The interval timer fires every second for as long as the worker runs and
\* time passes, so a tick that reads a later second keeps coming, whatever
\* the clock reads in between; and stats_processor, once called, runs to
\* its end.
TickingFairness ==
    /\ WF_pc(TickAt(LaterReadings))
    /\ WF_pc(Proceeds)

TickingSpec == FixedInit /\ [][TickingNext]_vars /\ TickingFairness

\* ------------------------------------------------- reference computations
BufferNames == {"responses", "connections", "memory"}

\* The configured size of a buffer.
ConfiguredSize(name) ==
    CASE name = "responses"   -> config.timing_buffer_size
      [] name = "connections" -> config.connection_buffer_size
      [] name = "memory"      -> config.memory_buffer_size

\* The measurement of a sample a buffer aggregates.
Measurement(name) ==
    CASE name = "responses"   -> "time_taken"
      [] name = "connections" -> "connections"
      [] name = "memory"      -> "memory"

\* The key of a buffer in a response or in a bus message.
ResponseKey(name) == IF name = "responses" THEN "times" ELSE name

RECURSIVE SeqSum(_)
SeqSum(seq) == IF seq = <<>> THEN 0 ELSE Head(seq) + SeqSum(Tail(seq))

SetMax(S) == CHOOSE x \in S : \A y \in S : y <= x
SetMin(S) == CHOOSE x \in S : \A y \in S : x <= y
Range(seq) == {seq[j] : j \in 1..Len(seq)}
Smaller(a, b) == IF a < b THEN a ELSE b

\* The four figures of an aggregate, without its started_at.
Figures(stats) ==
    [average |-> stats.average, maximum |-> stats.maximum,
     minimum |-> stats.minimum, count |-> stats.count]

\* The aggregate of a sequence of values, computed from the values.
OfValues(values) ==
    IF values = <<>>
    THEN Figures(Default)
    ELSE [average |-> Rat(SeqSum(values), Len(values)),
          maximum |-> SetMax(Range(values)),
          minimum |-> SetMin(Range(values)),
          count   |-> Len(values)]

\* The merge of the n newest entries of a buffer: entry n merged into the
\* merge of the n - 1 entries in front of it, from a default aggregate.
RECURSIVE MergeNewest(_, _)
MergeNewest(buffer, n) ==
    IF n = 0 THEN Default ELSE update(MergeNewest(buffer, n - 1), buffer[n])

\* |a - b| <= bound, for rationals.
RatWithin(a, b, bound) ==
    IF RatLeq(b, a) THEN RatLeq(RatSub(a, b), bound)
    ELSE RatLeq(RatSub(b, a), bound)

\* The rounding an average of `count` values no larger than `maximum` may
\* have gathered: count * maximum * 2^-SignificandBits.
Tolerance(count, maximum) == Rat(count * maximum, 2^SignificandBits)

\* Two aggregates agree in count and extremes, and in their averages up to
\* the rounding of a fold.
AgreeUpToRounding(a, b) ==
    /\ a.count = b.count
    /\ a.maximum = b.maximum
    /\ a.minimum = b.minimum
    /\ RatWithin(a.average, b.average, Tolerance(b.count, b.maximum))

\* The n newest entries of a buffer folded by update, newest first.
fold_newest(buffer, n) ==
    Figures(initialize_map([window |-> n], buffer).window)

\* The recorded samples of `folded` whose `key` second is one of `seconds`.
Binned(seconds, key) == {e \in BagToSet(folded) : e[key] \in seconds}

RECURSIVE BinnedSum(_, _)
BinnedSum(S, field) ==
    IF S = {} THEN 0
    ELSE LET e == CHOOSE x \in S : TRUE
         IN  CopiesIn(e, folded) * (IF field = "count" THEN 1 ELSE e[field])
             + BinnedSum(S \ {e}, field)

\* The aggregate of the recorded samples of some seconds, computed from the
\* samples.
OfSamples(seconds, key, field) ==
    LET S == Binned(seconds, key) IN
    IF S = {}
    THEN Figures(Default)
    ELSE [average |-> Rat(BinnedSum(S, field), BinnedSum(S, "count")),
          maximum |-> SetMax({e[field] : e \in S}),
          minimum |-> SetMin({e[field] : e \in S}),
          count   |-> BinnedSum(S, "count")]

\* The seconds the n newest entries of a buffer are stamped with.
Covered(buffer, n) == {buffer[j].started_at : j \in 1..n}

\* min <= average <= max, for an aggregate that holds a sample.
InRange(stats) ==
    stats.count > 0 =>
        /\ RatLeq(RatOfInt(stats.minimum), stats.average)
        /\ RatLeq(stats.average, RatOfInt(stats.maximum))

\* The advance in progress was started by the timer and found nothing
\* accumulated.
IdleTickAdvance ==
    /\ metrics = None
    /\ accumulated # None
    /\ unwrap(accumulated).times.count = 0
    /\ unwrap(accumulated).connections.count = 0
    /\ unwrap(accumulated).memory.count = 0

\* ------------------------------------------------------------- properties
\* C1: for every configured capacity, zero included, no buffer ever holds
\* more entries than its capacity.
C1_WithinCapacity ==
    \A name \in BufferNames : Len(buffers[name]) <= ConfiguredSize(name)

\* C2: in every buffer each entry is stamped exactly one second after the
\* entry behind it: an advance over several seconds leaves no gap, and no
\* step puts an entry in front that is not newer than the one before.
C2_ConsecutiveSeconds ==
    \A name \in BufferNames : \A j \in 1..(Len(buffers[name]) - 1) :
        buffers[name][j].started_at
            = AddSeconds(buffers[name][j + 1].started_at, 1)

\* A buffer holds an entry of an idle second in front of an entry with a
\* sample, after an advance of two seconds.
C2_Witness ==
    /\ pc = "select"
    /\ \E name \in BufferNames :
        /\ Len(buffers[name]) >= 2
        /\ buffers[name][1].count = 0
        /\ buffers[name][2].count > 0

\* C3: the message an advance publishes on the bus holds the aggregates of
\* the first entry the advance pushed, the one with the accumulated second.
C3_PublishesFirstEntry ==
    [][pc = "publish" =>
          /\ broadcast' # <<>>
          /\ broadcast'[Len(broadcast')] = unwrap(accumulated)]_vars

C5_LastSecondIsFirstEntry ==
    history_response # None =>
        \A name \in BufferNames :
            unwrap(history_response)[ResponseKey(name)] # <<>> =>
                unwrap(history_response).last_second
                    = buffers[name][1].started_at

\* C6: last_second never moves backwards, whatever the clock readings and
\* the timestamps of the samples.
C6_LastSecondMonotone == [][~Earlier(last_second', last_second)]_vars

\* last_second has been written by a second advance.
C6_Witness ==
    /\ pc = "select"
    /\ last_second.secs >= 2
    /\ Len(broadcast) >= 2

\* C7 as stated: values folded one at a time into a default aggregate give
\* the number of the values, their maximum, their minimum and, exactly,
\* their mean.
C7_FoldOfValues == Figures(fold_stats) = OfValues(fold_values)

\* C7 as the code has it: values folded one at a time into a default
\* aggregate give the number of the values, their maximum and their
\* minimum exactly, and their mean up to the rounding of the fold (no more
\* than count * maximum * 2^-SignificandBits).
C7_FoldOfValuesRounded ==
    AgreeUpToRounding(Figures(fold_stats), OfValues(fold_values))

\* A fold of three values, a zero among them, whose average is not their
\* mean.
C7_Witness ==
    /\ Len(fold_values) = 3
    /\ 0 \in Range(fold_values)
    /\ fold_stats.minimum < fold_stats.maximum
    /\ fold_stats.average # OfValues(fold_values).average

\* C8: every aggregate that holds a sample has min <= average <= max: the
\* accumulators, the totals, the endpoints, the buffer entries, the bus
\* messages and the folds and figures of an overview.
C8_AverageInRange ==
    /\ InRange(timing_stats) /\ InRange(conn_stats) /\ InRange(memory_stats)
    /\ InRange(totals.times) /\ InRange(totals.connections)
    /\ InRange(totals.memory)
    /\ \A e \in DOMAIN totals.endpoints : InRange(totals.endpoints[e])
    /\ \A name \in BufferNames : \A j \in 1..Len(buffers[name]) :
          InRange(buffers[name][j])
    /\ \A j \in 1..Len(broadcast) : \A name \in BufferNames :
          InRange(broadcast[j][ResponseKey(name)])
    /\ stats_input # None =>
          \A name \in BufferNames : \A window \in DOMAIN config.periods :
              InRange(unwrap(stats_input)[ResponseKey(name)][window])
    /\ stats_response # None =>
          /\ \A name \in BufferNames :
                \A key \in DOMAIN unwrap(stats_response)[ResponseKey(name)] :
                    InRange(unwrap(stats_response)[ResponseKey(name)][key])
          /\ \A e \in DOMAIN unwrap(stats_response).endpoints :
                InRange(unwrap(stats_response).endpoints[e])

\* C9: the figures an overview gives for a period of N seconds are those of
\* the merge of the newest min(N, len) entries of the buffer, taken from
\* the newest entry towards older ones; entries beyond the N-th take no
\* part, and an empty buffer gives the zero aggregate.
C9_PeriodIsNewestEntries ==
    [][/\ (stats_pc = "idle" /\ stats_pc' = "totals") =>
            \A name \in BufferNames : \A window \in DOMAIN config.periods :
                Figures(unwrap(stats_input')[ResponseKey(name)][window])
                    = Figures(MergeNewest(buffers[name],
                                  Smaller(config.periods[window],
                                          Len(buffers[name]))))
       /\ (stats_pc = "totals" /\ stats_pc' = "idle") =>
            \A name \in BufferNames : \A window \in DOMAIN config.periods :
                unwrap(stats_response')[ResponseKey(name)][window]
                    = Figures(unwrap(stats_input)[ResponseKey(name)][window])
      ]_vars

\* An overview has folded a buffer of two entries: the shorter period takes
\* the newest entry alone, which is idle, and the longer one takes the
\* entry behind it as well.
C9_Witness ==
    /\ stats_pc = "totals"
    /\ config.periods.second = 1
    /\ Len(buffers.connections) >= 2
    /\ unwrap(stats_input).connections.second.count = 0
    /\ unwrap(stats_input).connections.minute.count >= 1

\* C10 as stated: the newest N entries of a buffer, folded together, give
\* the count, extremes and mean of the samples whose started_at lies in the
\* N seconds of those entries.
C10_FoldIsSamplesByStart ==
    \A name \in BufferNames : \A n \in 1..Len(buffers[name]) :
        fold_newest(buffers[name], n)
            = OfSamples(Covered(buffers[name], n), "started",
                        Measurement(name))

\* C10 as the code has it: the newest N entries of a buffer, folded
\* together, give the count and extremes of the samples the worker
\* received while it was accumulating one of the N seconds of those
\* entries, whatever their started_at, and the mean of those samples up to
\* the rounding of the folds.
C10_FoldIsSamplesBySecond ==
    \A name \in BufferNames : \A n \in 1..Len(buffers[name]) :
        AgreeUpToRounding(
            fold_newest(buffers[name], n),
            OfSamples(Covered(buffers[name], n), "second", Measurement(name)))

\* A buffer of two entries that hold, between them, two samples, one of
\* which started in another second than the one it was accumulated in.
C10_Witness ==
    /\ \E e \in BagToSet(folded) : e.second # e.started
    /\ \E name \in BufferNames :
        /\ Len(buffers[name]) >= 2
        /\ fold_newest(buffers[name], 2).count = 2

\* C11: a buffer of capacity c >= 1 holds exactly the min(p, c) entries most
\* recently pushed to it, newest first, p being the number of entries
\* pushed so far: a push at capacity drops the oldest entry and no other.
C11_HoldsNewestPushed ==
    \A name \in BufferNames :
        ConfiguredSize(name) >= 1 =>
            buffers[name]
                = SubSeq(pushed[name], 1,
                         Smaller(Len(pushed[name]), ConfiguredSize(name)))

\* A buffer of two entries or more, at capacity, has dropped an entry that
\* held a sample.
C11_Witness ==
    \E name \in BufferNames :
        /\ ConfiguredSize(name) >= 2
        /\ Len(buffers[name]) = ConfiguredSize(name)
        /\ Len(pushed[name]) > ConfiguredSize(name)
        /\ pushed[name][Len(pushed[name])].count > 0

\* The requests inside the capture hook, between the increment of
\* connections and its decrement.
InFlight == {r \in Requesters : hooks[r].pc \in {"handling", "leaving"}}

\* C12: at every state the connections counter is the number of requests
\* that have passed the increment of the capture hook and not yet reached its
\* decrement, however the requests interleave and finish; with no request in
\* flight it is 0, and it never underflows.
C12_ConnectionsIsInFlight == connections = Cardinality(InFlight)

\* C15: if the allocator memory query fails at hook exit, the hook still
\* enqueues a sample for that request with memory = 0, goes on to decrement
\* connections and returns the response.
C15_AllocatorFailureTolerated ==
    [][\A r \in Requesters :
          (hooks[r].pc = "handling" /\ hooks'[r].query_failed) =>
              /\ hooks'[r].pc = "leaving"
              /\ hooks'[r].response # None
              /\ queue' # None
              /\ Len(unwrap(queue')) = Len(unwrap(queue)) + 1
              /\ unwrap(queue')[Len(unwrap(queue'))].memory = 0]_vars

\* C13: with enabled = false, requests through the capture hook leave
\* requests, connections, totals, buffers and last_second as constructed and
\* enqueue no sample, and start_stats_processor installs neither sender nor
\* broadcaster and starts no worker; the hook only attaches its context.
C13_DisabledDoesNothing ==
    ~config.enabled =>
        /\ requests = 0
        /\ connections = 0
        /\ totals = [codes |-> DefaultCodes, times |-> Default,
                     endpoints |-> <<>>, connections |-> Default,
                     memory |-> Default]
        /\ buffers = [responses |-> <<>>, connections |-> <<>>, memory |-> <<>>]
        /\ last_second = Epoch
        /\ queue = None
        /\ broadcaster = None
        /\ broadcast = <<>>
        /\ pc \in {"unstarted", "disabled"}
        /\ \A r \in Requesters :
              /\ hooks[r].pc \in {"arriving", "passing", "returned"}
              /\ hooks[r].pc = "passing" => hooks[r].started_at # None
              /\ hooks[r].pc = "returned" => hooks[r].returned = hooks[r].response

\* Telemetry is disabled, start_stats_processor has returned, one request has
\* been answered and another is inside its handler.
C13_Witness ==
    /\ ~config.enabled
    /\ pc = "disabled"
    /\ \E r \in Requesters : hooks[r].pc = "returned"
    /\ \E r \in Requesters : hooks[r].pc = "passing"

\* C14: if sending the sample fails because the receiver is gone, or no
\* sender is installed, the hook leaves the queue as it is (no retry), keeps
\* the response of the handler, and goes on to decrement connections and to
\* return that response.
C14_SendFailureTolerated ==
    [][\A r \in Requesters :
          /\ (/\ hooks[r].pc = "handling"
               /\ hooks'[r].pc # "handling"
               /\ (queue = None \/ ~receiver)
               /\ ~hooks'[r].query_failed)
              => /\ hooks'[r].pc = "leaving"
                 /\ hooks'[r].response \in {Some(c) : c \in StatusCodes}
                 /\ queue' = queue
                 /\ connections' = connections
          /\ (hooks[r].pc = "leaving" /\ hooks'[r].pc # "leaving")
              => /\ hooks'[r].pc = "returned"
                 /\ hooks'[r].returned = hooks[r].response
                 /\ hooks'[r].returned # None
                 /\ connections' = connections - 1]_vars

\* A request has been answered through the hook although its sample could
\* not be sent: the receiver is gone, the queue is empty and every request
\* that came in has left.
C14_Witness ==
    /\ config.enabled
    /\ queue = Some(<<>>)
    /\ ~receiver
    /\ requests > 0
    /\ connections = 0
    /\ \E r \in Requesters :
          hooks[r].pc = "returned" /\ hooks[r].returned # None

\* The sum of the counts of a map of status codes.
RECURSIVE CodesSum(_)
CodesSum(codes) ==
    IF DOMAIN codes = {} THEN 0
    ELSE LET c == CHOOSE k \in DOMAIN codes : TRUE
         IN  codes[c] + CodesSum([k \in DOMAIN codes \ {c} |-> codes[k]])

\* C16 as stated: with telemetry enabled and the worker started, the
\* status-code counts of totals never sum to more than requests, and when no
\* request is inside the capture hook and the queue is drained they sum to
\* requests - active.
C16_CodesSumWhenDrained ==
    /\ CodesSum(totals.codes) <= requests
    /\ (InFlight = {} /\ queue = Some(<<>>))
           => CodesSum(totals.codes) = requests - connections

\* C16: with telemetry enabled and the worker started, the status-code
\* counts of totals never sum to more than requests, and when no request is
\* inside the capture hook, the queue is drained and the worker holds no
\* sample it has received and not yet counted, they sum to
\* requests - active.
C16_CodesSumToRequests ==
    /\ CodesSum(totals.codes) <= requests
    /\ (InFlight = {} /\ queue = Some(<<>>) /\ pc # "received")
           => CodesSum(totals.codes) = requests - connections

\* Every request has come and gone, one of them answered with a status code
\* that totals does not preset, and the worker has received every sample.
C16_Witness ==
    /\ requests = MaxRequests
    /\ InFlight = {}
    /\ queue = Some(<<>>)
    /\ pc # "received"
    /\ \A r \in Requesters : hooks[r].pc = "returned"
    /\ CodesSum(totals.codes) = MaxRequests
    /\ \E c \in DOMAIN totals.codes : c \notin DOMAIN DefaultCodes

\* C18: the time_taken of a sample is max(0, now - started_at) in
\* microseconds (capped at the largest u64): 0 when the clock read at hook
\* exit is earlier than started_at.
C18_TimeTakenClamped ==
    \A r \in Requesters :
        hooks[r].sample # None =>
            LET sample  == unwrap(hooks[r].sample)
                elapsed == num_microseconds(unwrap(hooks[r].now), sample.started_at)
            IN  sample.time_taken = IF elapsed < 0 THEN 0 ELSE elapsed

\* A clock reading in half seconds.
Halves(t) == 2 * t.secs + (IF 2 * t.nanos >= 1000000000 THEN 1 ELSE 0)

\* The whole seconds from reading s to reading t, as get_stats reports
\* them: for t before s, the negative count as a u64.
WholeSecondsElapsed(t, s) ==
    IF Halves(t) >= Halves(s)
    THEN (Halves(t) - Halves(s)) \div 2
    ELSE (2^U64Bits - (Halves(s) - Halves(t)) \div 2) % 2^U64Bits

\* C17 as stated: the uptime of an overview taken at clock reading t is
\* floor(t) - floor(started_at), whatever the sub-second parts of the two.
C17_UptimeIsDifferenceOfFloors ==
    stats_response # None =>
        unwrap(stats_response).uptime = unwrap(stats_now).secs - started_at.secs

\* C17: the uptime of an overview taken at clock reading t is the number of
\* whole seconds elapsed from started_at to t, which is
\* floor(t) - floor(started_at) less one when the sub-second part of t is
\* the smaller; for t earlier than started_at it is the negative count of
\* whole seconds as a u64.
C17_UptimeIsWholeSecondsElapsed ==
    stats_response # None =>
        unwrap(stats_response).uptime
            = WholeSecondsElapsed(unwrap(stats_now), started_at)

\* An overview taken more than a second after started_at, at a reading whose
\* sub-second part is the smaller.
C17_Witness ==
    /\ stats_response # None
    /\ unwrap(stats_now).nanos < started_at.nanos
    /\ unwrap(stats_now).secs > started_at.secs + 1
    /\ unwrap(stats_response).uptime = unwrap(stats_now).secs - started_at.secs - 1

\* C19: for every ws_ping_interval and ws_ping_timeout, a feed that has sent
\* a ping and received no pong after it is closed once more than
\* ws_ping_timeout seconds have passed since that ping: at the latest at the
\* first check of the timeout that comes more than ws_ping_timeout seconds
\* after the ping, so that no feed stays open for more than twice
\* ws_ping_timeout after a ping that has not been answered.
C19_UnansweredPingCloses ==
    (feed.open /\ feed.unanswered # None) =>
        feed.clock - unwrap(feed.unanswered) <= 2 * feed.ws_ping_timeout

\* Whether P holds of every aggregate the state holds: the accumulators of
\* the worker, the totals, and the entries of the buffers.
EveryAggregate(P(_)) ==
    /\ P(timing_stats) /\ P(conn_stats) /\ P(memory_stats)
    /\ P(totals.times) /\ P(totals.connections) /\ P(totals.memory)
    /\ \A e \in DOMAIN totals.endpoints : P(totals.endpoints[e])
    /\ \A name \in BufferNames :
          \A j \in 1..Len(buffers[name]) : P(buffers[name][j])

\* A default aggregate updated with x has the figures of x, and x updated
\* with a default aggregate is x.
NeutralFor(x) ==
    /\ Figures(update(Default, x)) = Figures(x)
    /\ update(x, Default) = x

\* C20: for every aggregate x the system reaches, a default aggregate
\* updated with x has the average, maximum, minimum and count of x, and x
\* updated with a default aggregate is x, started_at included.
C20_DefaultIsNeutral == EveryAggregate(NeutralFor)

\* The totals hold an aggregate of several samples whose minimum is above 0
\* and below its maximum, and a buffer holds the entry of an idle second.
C20_Witness ==
    /\ totals.times.count >= 2
    /\ 0 < totals.times.minimum
    /\ totals.times.minimum < totals.times.maximum
    /\ \E name \in BufferNames : \E j \in 1..Len(buffers[name]) :
          buffers[name][j].count = 0

\* The entries an advance of e seconds from `second` is to push, newest
\* first: e - 1 entries with every figure 0 stamped with the seconds after
\* `second`, then the accumulated stats stamped `second`.
AdvanceEntries(stats, second, e) ==
    [j \in 1..e |->
        IF j = e
        THEN [started_at |-> second, average |-> stats.average,
              maximum |-> stats.maximum, minimum |-> stats.minimum,
              count |-> stats.count]
        ELSE [started_at |-> [secs |-> second.secs + (e - j), nanos |-> second.nanos],
              average |-> RatOfInt(0), maximum |-> 0, minimum |-> 0,
              count |-> 0]]

\* The buffer after `entries` have entered at the front of `buffer`, under
\* the configured size: a size of 0 never drops an entry.
AfterEntering(entries, buffer, size) ==
    IF size = 0 THEN entries \o buffer
    ELSE SubSeq(entries \o buffer, 1, Smaller(Len(entries) + Len(buffer), size))

\* The accumulator of a buffer.
Accumulator(name) ==
    CASE name = "responses" -> timing_stats
      [] name = "connections" -> conn_stats
      [] name = "memory" -> memory_stats

\* C21: an advance with elapsed = e pushes exactly e entries onto each
\* buffer: the first stamped current_second with the accumulated values, the
\* other e - 1 stamped with the following seconds with count, average,
\* maximum and minimum 0; afterwards the accumulators are empty.
C21_AdvancePushesElapsedEntries ==
    [][(pc = "advance" /\ pc' = "commit") =>
          LET e == new_second.secs - current_second.secs IN
          /\ \A name \in BufferNames :
                buffers'[name] =
                    AfterEntering(
                        AdvanceEntries(Accumulator(name), current_second, e),
                        buffers[name], ConfiguredSize(name))
          /\ Figures(timing_stats') = Figures(Default)
          /\ Figures(conn_stats') = Figures(Default)
          /\ Figures(memory_stats') = Figures(Default)]_vars

\* An advance of more than one second has just pushed accumulated samples
\* and idle entries.
C21_Witness ==
    /\ pc = "commit"
    /\ new_second.secs - current_second.secs >= 2
    /\ accumulated # None
    /\ unwrap(accumulated).times.count > 0
    /\ Len(buffers.responses) >= 2
    /\ buffers.responses[1].count = 0

Larger(a, b) == IF a > b THEN a ELSE b

\* The number of entries a step pushes onto each buffer.
EnteredByStep ==
    IF pc = "advance" /\ pc' = "commit"
    THEN new_second.secs - current_second.secs ELSE 0

\* C22: a sample whose second is earlier than current_second is folded into
\* the current accumulators and the totals and causes no advance; and no
\* step modifies an entry that is in a buffer: the entries behind those the
\* step pushed are the old entries, in order, from the front.
C22_LateSampleFoldedNoAdvance ==
    [][/\ (received' = received + 1 /\ Earlier(new_second', current_second)) =>
            /\ pc' = "select"
            /\ buffers' = buffers
            /\ current_second' = current_second
            /\ last_second' = last_second
            /\ broadcast' = broadcast
            /\ timing_stats'.count = timing_stats.count + 1
            /\ conn_stats'.count = conn_stats.count + 1
            /\ memory_stats'.count = memory_stats.count + 1
            /\ totals'.times.count = totals.times.count + 1
            /\ totals'.connections.count = totals.connections.count + 1
            /\ totals'.memory.count = totals.memory.count + 1
            /\ \E sample \in Samples :
                  /\ with_nanosecond_0(sample.started_at) = new_second'
                  /\ timing_stats'.maximum =
                        Larger(timing_stats.maximum, sample.time_taken)
                  /\ conn_stats'.maximum =
                        Larger(conn_stats.maximum, sample.connections)
                  /\ memory_stats'.maximum =
                        Larger(memory_stats.maximum, sample.memory)
                  /\ totals'.times.maximum =
                        Larger(totals.times.maximum, sample.time_taken)
                  /\ sample.status_code \in DOMAIN totals'.codes
                  /\ sample.endpoint \in DOMAIN totals'.endpoints
       /\ \A name \in BufferNames :
            \A j \in 1..Len(buffers'[name]) :
                j > EnteredByStep =>
                    /\ j - EnteredByStep <= Len(buffers[name])
                    /\ buffers'[name][j] = buffers[name][j - EnteredByStep]
      ]_vars

\* A sample of an earlier second has been folded while the responses buffer
\* holds entries.
C22_Witness ==
    /\ pc = "select"
    /\ buffers.responses # <<>>
    /\ timing_stats.count > 0
    /\ Earlier(new_second, current_second)
    /\ totals.times.count = timing_stats.count

\* The number of samples the capture hook has enqueued: with a sender
\* installed, a hook is past its send once it is about to decrement the
\* connections counter or has returned.
Enqueued ==
    Cardinality({r \in Requesters : hooks[r].pc \in {"leaving", "returned"}})

\* The number of samples the worker has taken off the queue and not yet
\* counted.
InWorker == IF pc = "received" THEN 1 ELSE 0

\* C23 as stated: once the queue has drained, totals.times.count is the
\* number of samples enqueued.
C23_CountWhenDrained ==
    queue = Some(<<>>) => totals.times.count = Enqueued

\* C23: every sample enqueued is dequeued and counted exactly once, in queue
\* order: the samples counted, the sample in the hands of the worker and the
\* samples queued are together the samples enqueued; the queue only loses
\* its head, to the worker, and only gains at its back; and totals.times
\* counts one more exactly when the worker processes the sample it holds.
C23_EachSampleCountedOnce ==
    /\ [](queue # None /\
          totals.times.count + InWorker + Len(unwrap(queue)) = Enqueued)
    /\ [][/\ Len(unwrap(queue')) < Len(unwrap(queue)) =>
               /\ pc = "select" /\ pc' = "received"
               /\ metrics' = Some(Head(unwrap(queue)))
               /\ queue' = Some(Tail(unwrap(queue)))
          /\ Len(unwrap(queue')) > Len(unwrap(queue)) =>
               /\ Len(unwrap(queue')) = Len(unwrap(queue)) + 1
               /\ SubSeq(unwrap(queue'), 1, Len(unwrap(queue))) = unwrap(queue)
          /\ totals'.times.count # totals.times.count =>
               /\ pc = "received" /\ pc' # "received"
               /\ totals'.times.count = totals.times.count + 1
               /\ unwrap(metrics).endpoint \in DOMAIN totals'.endpoints
               /\ new_second' = with_nanosecond_0(unwrap(metrics).started_at)
          /\ (pc = "received" /\ pc' # "received") =>
               totals'.times.count = totals.times.count + 1
          ]_vars

\* Every request has sent its sample, the queue has drained, the worker
\* holds no sample, and an advance has taken place in between.
C23_Witness ==
    /\ queue = Some(<<>>)
    /\ pc = "select"
    /\ Enqueued = MaxRequests
    /\ totals.times.count = MaxRequests
    /\ buffers.responses # <<>>
    /\ buffers.responses[1].count = 1

\* C24: while the worker runs, with or without samples, every second that
\* ends is eventually committed: an entry stamped with it is pushed onto
\* each buffer, the front of each buffer comes to be stamped with the last
\* second that ended, and last_second only moves forward, to the second
\* that was current, and does move.
C24_EverySecondCommitted ==
    /\ \A s \in 1..MaxSecond :
          <>(\A name \in BufferNames :
                \E j \in 1..Len(pushed[name]) :
                    pushed[name][j].started_at = [secs |-> s, nanos |-> 0])
    /\ <>[](\A name \in BufferNames :
                /\ buffers[name] # <<>>
                /\ buffers[name][1].started_at = [secs |-> MaxSecond, nanos |-> 0])
    /\ [][last_second' # last_second =>
              /\ Earlier(last_second, last_second')
              /\ last_second' = current_second]_vars
    /\ <>[](last_second # Epoch)

\* No sample has arrived, and the tick has committed every second that
\* ended.
C24_Witness ==
    /\ received = 0
    /\ pc = "select"
    /\ current_second.secs = MaxSecond + 1
    /\ Len(pushed.responses) = MaxSecond
    /\ last_second.secs >= 1

\* C25: once every sending end of the queue is dropped, the worker leaves
\* its loop and stops; from then on it never runs again and nothing it
\* writes changes: no advance, no buffer write, no totals update, no
\* broadcast.
C25_DisconnectStopsWorker ==
    /\ (senders = 0) ~> (pc = "stopped")
    /\ [][pc = "stopped" =>
              /\ pc' = "stopped"
              /\ UNCHANGED <<totals, buffers, last_second, broadcast,
                             current_second, timing_stats, conn_stats,
                             memory_stats, new_second, message, queue>>]_vars

\* The worker has stopped after it counted a sample and committed a second,
\* and a request has passed through the capture hook since.
C25_Witness ==
    /\ pc = "stopped"
    /\ senders = 0
    /\ totals.times.count >= 1
    /\ buffers.responses # <<>>
    /\ requests > totals.times.count

\* The sum of the counts of a map of aggregates.
RECURSIVE CountsSum(_)
CountsSum(map) ==
    IF DOMAIN map = {} THEN 0
    ELSE LET k == CHOOSE key \in DOMAIN map : TRUE
         IN  map[k].count + CountsSum([key \in DOMAIN map \ {k} |-> map[key]])

\* C26: the totals updates of one sample are seen all or not at all: in
\* every state of the totals, and in every overview response, the count of
\* times, of connections and of memory, the sum of the endpoint counts and
\* the sum of the status-code counts are one number.
C26_TotalsAllOrNothing ==
    /\ totals.connections.count = totals.times.count
    /\ totals.memory.count = totals.times.count
    /\ CountsSum(totals.endpoints) = totals.times.count
    /\ CodesSum(totals.codes) = totals.times.count
    /\ stats_response # None =>
          LET response == unwrap(stats_response) IN
          /\ response.connections["all"].count = response.times["all"].count
          /\ response.memory["all"].count = response.times["all"].count
          /\ CountsSum(response.endpoints) = response.times["all"].count
          /\ CodesSum(response.codes) = response.times["all"].count

\* An overview response that counts samples of two endpoints.
C26_Witness ==
    /\ stats_response # None
    /\ unwrap(stats_response).times["all"].count = MaxRecorded
    /\ Cardinality(DOMAIN unwrap(stats_response).endpoints) >= 2

\* The locks user p holds.
Held(p) ==
    {name \in {"totals", "buffers_write", "buffers_read",
                "last_second_write", "last_second_read"} : p \in locks[name]}

\* The positions at which a user waits for a lock.
Requesting ==
    {"want_totals", "want_buffers", "want_last_second",
     "stats_want_buffers", "stats_want_totals", "stats_want_last_second",
     "history_want_buffers", "history_want_last_second"}

\* C27: the worker and the handlers never deadlock on the totals mutex, the
\* buffers lock and the last_second lock: the worker never holds two of them
\* at once, a handler that waits for a lock does not hold last_second, and
\* every request for a lock is eventually granted.
C27_NoDeadlock ==
    /\ [](Cardinality(Held(Worker)) <= 1)
    /\ [](\A p \in Handlers :
            locks.at[p] \in Requesting => "last_second_read" \notin Held(p))
    /\ \A p \in LockUsers :
          \A want \in Requesting :
              (locks.at[p] = want) ~> (locks.at[p] # want)

\* The worker waits for the buffers while one handler reads them and waits
\* for last_second, and the other handler holds the totals.
C27_Witness ==
    /\ locks.at[Worker] = "want_buffers"
    /\ \E p \in Handlers : locks.at[p] = "history_want_last_second"
    /\ \E p \in Handlers : locks.at[p] = "stats_want_last_second"

\* C28: in every overview response, for each configured period and each of
\* times, connections and memory, the count reported for the period is at
\* most the count reported for all.
C28_PeriodCountAtMostAll ==
    stats_response # None =>
        \A name \in {"times", "connections", "memory"} :
            LET reported == unwrap(stats_response)[name] IN
            \A period \in DOMAIN reported :
                reported[period].count <= reported["all"].count

\* An overview response in which a period counts a sample and all counts
\* more.
C28_Witness ==
    /\ stats_response # None
    /\ \E period \in DOMAIN unwrap(stats_response).times :
          /\ period # "all"
          /\ unwrap(stats_response).times[period].count >= 1
          /\ unwrap(stats_response).times[period].count
                < unwrap(stats_response).times["all"].count

\* The sum of the counts of the entries of a buffer.
BufferCount(name) ==
    SeqSum([j \in 1..Len(buffers[name]) |-> buffers[name][j].count])

\* Whether a buffer has lost an entry it was given.
Evicted(name) == Len(pushed[name]) > Len(buffers[name])

\* C29 as stated: at every state the counts of the entries of a buffer plus
\* the count of its accumulator are at most the count of its totals, and
\* equal to it while the buffer has lost no entry.
C29_AccountedInTotals ==
    \A name \in BufferNames :
        /\ BufferCount(name) + Accumulator(name).count
              <= totals[ResponseKey(name)].count
        /\ ~Evicted(name) =>
              BufferCount(name) + Accumulator(name).count
                  = totals[ResponseKey(name)].count

\* C29: the same, at every state in which the worker is not between the
\* update of the accumulators and the update of the totals for one sample;
\* in between, the accumulators are one sample ahead of the totals.
C29_AccountedOutsideFold ==
    LET ahead == IF pc = "totals" THEN 1 ELSE 0 IN
    \A name \in BufferNames :
        /\ BufferCount(name) + Accumulator(name).count
              <= totals[ResponseKey(name)].count + ahead
        /\ ~Evicted(name) =>
              BufferCount(name) + Accumulator(name).count
                  = totals[ResponseKey(name)].count + ahead

\* The responses buffer has lost an entry that counted a sample and counts
\* less than the totals, while the connections buffer has lost none.
C29_Witness ==
    /\ pc = "select"
    /\ Evicted("responses")
    /\ BufferCount("responses") + timing_stats.count < totals.times.count
    /\ ~Evicted("connections")
    /\ totals.connections.count >= 1
    /\ timing_stats.count >= 1

\* Whether a buffer of the configured size still holds the oldest of e
\* entries pushed in one advance.
KeepsOldestOf(name, e) == ConfiguredSize(name) = 0 \/ e <= ConfiguredSize(name)

\* C30: a sample of a second later than current_second is in the
\* accumulators before the advance it triggers is decided, and that decision
\* touches neither the accumulators nor the buffers; the advance then puts
\* the accumulated stats, the sample included, in the entry stamped with the
\* old current_second, the oldest of the entries it pushes, and leaves the
\* three accumulators empty for the sample's own second.
C30_LaterSampleCountedInOldSecond ==
    [][/\ (pc = "totals" /\ pc' = "advance") =>
            /\ Earlier(current_second, with_nanosecond_0(unwrap(metrics).started_at))
            /\ \A name \in BufferNames : Accumulator(name).count >= 1
            /\ timing_stats.maximum >= unwrap(metrics).time_taken
            /\ <<timing_stats', conn_stats', memory_stats'>>
                  = <<timing_stats, conn_stats, memory_stats>>
            /\ buffers' = buffers
            /\ current_second' = current_second
       /\ (pc = "advance" /\ pc' = "commit" /\ metrics # None) =>
            LET e == new_second.secs - current_second.secs IN
            /\ e >= 1
            /\ current_second' = current_second
            /\ \A name \in BufferNames :
                  KeepsOldestOf(name, e) =>
                      /\ buffers'[name][e].started_at = current_second
                      /\ buffers'[name][e].count = Accumulator(name).count
                      /\ buffers'[name][e].count >= 1
                      /\ \A j \in 1..(e - 1) : buffers'[name][j].count = 0
            /\ timing_stats' = Default
            /\ conn_stats' = Default
            /\ memory_stats' = Default
      ]_vars

\* An advance triggered by a sample two seconds or more ahead has pushed its
\* entries: the sample is counted in the one stamped with the old
\* current_second, behind an empty one, and the accumulators are empty.
C30_Witness ==
    /\ pc = "commit"
    /\ metrics # None
    /\ new_second.secs - current_second.secs >= 2
    /\ Len(buffers.responses) >= new_second.secs - current_second.secs
    /\ buffers.responses[new_second.secs - current_second.secs].started_at
          = current_second
    /\ buffers.responses[new_second.secs - current_second.secs].count >= 1
    /\ buffers.responses[1].count = 0
    /\ timing_stats = Default

====
